---- MODULE Spec2Model ----
(***************************************************************************)
(* Model of ChannelGeometry.py (hernanrr/OpenChannel): the four channel    *)
(* cross-section classes, their constructors and their six queries.        *)
(*                                                                         *)
(* Python numbers are modelled exactly: a number is a fraction n/d of two  *)
(* polynomials with integer coefficients in sqrt(k), pi and eps, where k   *)
(* is a square-free radicand (1 + side_slope^2 for Triangular and          *)
(* Trapezoidal, 3 for the Circular angles) and eps is the value            *)
(* math.sin returns at the float nearest to pi (1.2246e-16, not 0).        *)
(* Every number carries its Python type ("int" or "float").  The floats    *)
(* inf, -inf and nan are the fractions 1/0, -1/0 and 0/0.                  *)
(*                                                                         *)
(* Records are written with their fields in the order of the fields' first *)
(* appearance in this module, the order in which TLC keeps them.           *)
(***************************************************************************)
EXTENDS Integers, Sequences, FiniteSets, TLC

\* ------------------------------------------------------------------------
\* Integer helpers
\* ------------------------------------------------------------------------
Abs(x) == IF x < 0 THEN -x ELSE x

Min(a, b) == IF a <= b THEN a ELSE b

RECURSIVE GCD(_, _)
GCD(a, b) == IF b = 0 THEN Abs(a) ELSE GCD(b, a % Abs(b))

RECURSIVE SumF(_)
SumF(f) ==
  IF DOMAIN f = {} THEN 0
  ELSE LET x == CHOOSE z \in DOMAIN f : TRUE
       IN f[x] + SumF([y \in (DOMAIN f) \ {x} |-> f[y]])

RECURSIVE GcdF(_)
GcdF(f) ==
  IF DOMAIN f = {} THEN 0
  ELSE LET x == CHOOSE z \in DOMAIN f : TRUE
       IN GCD(f[x], GcdF([y \in (DOMAIN f) \ {x} |-> f[y]]))

Range(s) == {s[i] : i \in DOMAIN s}

\* the largest s with s*s dividing n (n > 0)
SquarePart(n) == CHOOSE s \in 1..n : /\ n % (s * s) = 0
                                     /\ \A t \in (s + 1)..n : n % (t * t) # 0

\* ------------------------------------------------------------------------
\* Polynomials: a function from monomials <<i, j, e>> (the exponents of
\* sqrt(k), pi and eps; i is 0 or 1) to non-zero integer coefficients.
\* ------------------------------------------------------------------------
PZero == [m \in {} |-> 0]

PMono(m, c) == IF c = 0 THEN PZero ELSE [x \in {m} |-> c]

PConst(c) == PMono(<<0, 0, 0>>, c)

PCoef(p, m) == IF m \in DOMAIN p THEN p[m] ELSE 0

PScale(p, c) == IF c = 0 THEN PZero ELSE [m \in DOMAIN p |-> c * p[m]]

\* Float rounding: a multiple of eps added to a quantity of ordinary size
\* is lost (pi - 1.2e-16 rounds to pi), so a sum keeps its eps terms only
\* when it has no other term.
PAbsorb(p) ==
  LET big == {m \in DOMAIN p : m[3] = 0}
  IN IF big = {} THEN p ELSE [m \in big |-> p[m]]

\* a function without the arguments it maps to 0
PStrip(f) == [m \in {x \in DOMAIN f : f[x] # 0} |-> f[m]]

PAdd(p, q) ==
  PAbsorb(PStrip([m \in (DOMAIN p) \cup (DOMAIN q) |-> PCoef(p, m) + PCoef(q, m)]))

MonoMul(m1, m2) == <<(m1[1] + m2[1]) % 2, m1[2] + m2[2], m1[3] + m2[3]>>

\* the product of two terms: sqrt(k) * sqrt(k) = k
TermMul(k, p, q, x) ==
  p[x[1]] * q[x[2]] * (IF x[1][1] = 1 /\ x[2][1] = 1 THEN k ELSE 1)

PMul(k, p, q) ==
  PStrip([m \in {MonoMul(x[1], x[2]) : x \in (DOMAIN p) \X (DOMAIN q)} |->
           SumF([x \in {y \in (DOMAIN p) \X (DOMAIN q) : MonoMul(y[1], y[2]) = m}
                   |-> TermMul(k, p, q, x)])])

\* the conjugate in sqrt(k): a + b*sqrt(k) becomes a - b*sqrt(k)
PConj(p) == [m \in DOMAIN p |-> IF m[1] = 1 THEN -p[m] ELSE p[m]]

MonoLess(m1, m2) ==
  \/ m1[3] < m2[3]
  \/ m1[3] = m2[3] /\ m1[2] < m2[2]
  \/ m1[3] = m2[3] /\ m1[2] = m2[2] /\ m1[1] < m2[1]

\* the sign of the leading coefficient
PSign(p) ==
  IF p[CHOOSE m \in DOMAIN p : \A x \in (DOMAIN p) \ {m} : MonoLess(x, m)] < 0
  THEN -1 ELSE 1

\* the sign of a polynomial whose coefficients all have the same sign
PSgn(p) ==
  CASE DOMAIN p = {}                -> 0
    [] \A m \in DOMAIN p : p[m] > 0 -> 1
    [] \A m \in DOMAIN p : p[m] < 0 -> -1

\* ------------------------------------------------------------------------
\* Numbers
\* ------------------------------------------------------------------------
\* float('inf') for s = 1, float('-inf') for s = -1, float('nan') for s = 0
NonFinite(s) == [n |-> PConst(s), t |-> "float", k |-> 1, d |-> PZero]

Inf == NonFinite(1)

NaN == NonFinite(0)

IsFinite(a) == DOMAIN a.d # {}

IsNaN(a) == DOMAIN a.d = {} /\ DOMAIN a.n = {}

Number(t, k, n, d) ==
  [n |-> n, t |-> t,
   k |-> IF \E m \in (DOMAIN n) \cup (DOMAIN d) : m[1] = 1 THEN k ELSE 1,
   d |-> d]

\* n/d with both divided by c
Cancel(t, k, n, d, c) ==
  Number(t, k, [m \in DOMAIN n |-> n[m] \div c], [m \in DOMAIN d |-> d[m] \div c])

\* n/d in lowest integer terms with a positive leading coefficient below
Lowest(t, k, n, d) == Cancel(t, k, n, d, PSign(d) * GCD(GcdF(n), GcdF(d)))

\* the denominator is a + b*sqrt(k) with b # 0
IsSurd(d) == /\ \A m \in DOMAIN d : m[2] = 0 /\ m[3] = 0
             /\ \E m \in DOMAIN d : m[1] = 1

\* n/d in lowest terms, with a rational denominator wherever the denominator
\* is free of pi and eps
Normalize(t, k, n, d) ==
  IF DOMAIN d = {} THEN NonFinite(PSgn(n))
  ELSE IF IsSurd(d) THEN Lowest(t, k, PMul(k, n, PConj(d)), PMul(k, d, PConj(d)))
  ELSE Lowest(t, k, n, d)

PyInt(i) == [n |-> PConst(i), t |-> "int", k |-> 1, d |-> PConst(1)]

PyFloat(p, q) == Normalize("float", 1, PConst(p), PConst(q))

PyStr(s) == [s |-> s, t |-> "str"]

\* isinstance(x, (float, int))
IsNumber(x) == x.t \in {"int", "float"}

NumType(a, b) == IF a.t = "int" /\ b.t = "int" THEN "int" ELSE "float"

Radicand(a, b) == IF a.k = 1 THEN b.k ELSE a.k

IsZero(a) == DOMAIN a.n = {} /\ IsFinite(a)

\* float(x)
ToFloat(a) == [a EXCEPT !.t = "float"]

\* inf + inf = inf; inf + -inf and every sum with nan are nan
Add(a, b) ==
  LET k == Radicand(a, b)
  IN IF ~IsFinite(a) /\ ~IsFinite(b) THEN (IF a = b THEN a ELSE NaN)
     ELSE Normalize(NumType(a, b), k,
                    PAdd(PMul(k, a.n, b.d), PMul(k, b.n, a.d)), PMul(k, a.d, b.d))

Neg(a) == [a EXCEPT !.n = PScale(a.n, -1)]

Sub(a, b) == Add(a, Neg(b))

Mul(a, b) ==
  LET k == Radicand(a, b)
  IN Normalize(NumType(a, b), k, PMul(k, a.n, b.n), PMul(k, a.d, b.d))

\* a / b for b # 0 (Python's true division always yields a float); an
\* infinite a divided by a finite b takes the sign of b into its own
TrueDiv(a, b) ==
  LET k == Radicand(a, b)
  IN IF ~IsFinite(a) /\ IsFinite(b)
     THEN Normalize("float", k, PScale(a.n, PSgn(b.n) * PSgn(b.d)), PZero)
     ELSE Normalize("float", k, PMul(k, a.n, b.d), PMul(k, a.d, b.n))

\* a ** 2
Square(a) == Mul(a, a)

\* numeric equality (Python's ==, which ignores int/float; nan equals
\* nothing, itself included)
NumEq(a, b) ==
  LET k == Radicand(a, b)
  IN IF IsFinite(a) /\ IsFinite(b) THEN PMul(k, a.n, b.d) = PMul(k, b.n, a.d)
     ELSE ~IsNaN(a) /\ a.n = b.n /\ a.d = b.d

\* Rational numbers (every argument a caller passes is one)
IsRational(a) == /\ DOMAIN a.n \subseteq {<<0, 0, 0>>}
                 /\ DOMAIN a.d = {<<0, 0, 0>>}

RatNum(a) == PCoef(a.n, <<0, 0, 0>>)

RatDen(a) == PCoef(a.d, <<0, 0, 0>>)

\* a <= b and a > b on rationals and on inf, -inf and nan (denominators are
\* positive, or 0 for the last three; every comparison with nan is False)
Leq(a, b) ==
  /\ ~IsNaN(a) /\ ~IsNaN(b)
  /\ RatNum(a) * RatDen(b) <= RatNum(b) * RatDen(a)

Gt(a, b) ==
  /\ ~IsNaN(a) /\ ~IsNaN(b)
  /\ RatNum(a) * RatDen(b) > RatNum(b) * RatDen(a)

Zero == PyInt(0)

One == PyInt(1)

\* ------------------------------------------------------------------------
\* The math module, on the arguments the bounded inputs produce
\* ------------------------------------------------------------------------
PiTimes(p, q) == Normalize("float", 1, PMono(<<0, 1, 0>>, p), PConst(q))

Surd3(p, q) == Normalize("float", 3, PMono(<<1, 0, 0>>, p), PConst(q))

\* c times the residue math.sin leaves at the float nearest to pi
Eps(c) == [n |-> PMono(<<0, 0, 1>>, c), t |-> "float", k |-> 1, d |-> PConst(1)]

\* math.sqrt of a positive rational p/q: sqrt(p*q)/q = s*sqrt(k)/q;
\* math.sqrt(inf) is inf and math.sqrt(nan) is nan
Sqrt(a) ==
  LET pq == RatNum(a) * RatDen(a)
      s  == SquarePart(pq)
      k  == pq \div (s * s)
  IN IF ~IsFinite(a) THEN a
     ELSE IF k = 1 THEN PyFloat(s, RatDen(a))
     ELSE Normalize("float", k, PMono(<<1, 0, 0>>, s), PConst(RatDen(a)))

\* math.acos
Acos(x) ==
  CASE IsNaN(x)                 -> NaN
    [] NumEq(x, One)            -> PyFloat(0, 1)
    [] NumEq(x, PyFloat(1, 2))  -> PiTimes(1, 3)
    [] NumEq(x, Zero)           -> PiTimes(1, 2)
    [] NumEq(x, PyFloat(-1, 2)) -> PiTimes(2, 3)
    [] NumEq(x, PyInt(-1))      -> PiTimes(1, 1)

\* math.sin
Sin(a) ==
  CASE IsNaN(a)                -> NaN
    [] IsZero(a)               -> PyFloat(0, 1)
    [] NumEq(a, PiTimes(1, 3)) -> Surd3(1, 2)
    [] NumEq(a, PiTimes(1, 2)) -> PyFloat(1, 1)
    [] NumEq(a, PiTimes(2, 3)) -> Surd3(1, 2)
    [] NumEq(a, PiTimes(1, 1)) -> Eps(1)
    [] NumEq(a, PiTimes(4, 3)) -> Surd3(-1, 2)
    [] NumEq(a, PiTimes(2, 1)) -> Eps(-2)

\* math.cos
Cos(a) ==
  CASE IsNaN(a)                -> NaN
    [] IsZero(a)               -> PyFloat(1, 1)
    [] NumEq(a, PiTimes(2, 3)) -> PyFloat(-1, 2)
    [] NumEq(a, PiTimes(1, 1)) -> PyFloat(-1, 1)
    [] NumEq(a, PiTimes(4, 3)) -> PyFloat(-1, 2)
    [] NumEq(a, PiTimes(2, 1)) -> PyFloat(1, 1)

\* ------------------------------------------------------------------------
\* Calls, argument binding and outcomes
\* ------------------------------------------------------------------------
NoVal == [t |-> "none"]

NoArgs == [pos |-> <<>>, kw |-> [n \in {} |-> NoVal]]

Positional(args) == [pos |-> args, kw |-> [n \in {} |-> NoVal]]

Keyword(name, v) == [pos |-> <<>>, kw |-> [n \in {name} |-> v]]

\* Python's binding of a call to the parameters of a def (self excluded;
\* no parameter of this program has a default): too many positional
\* arguments, an unknown keyword, a parameter given twice or a parameter
\* left out raise TypeError.
Bind(params, call) ==
  LET np    == Len(call.pos)
      names == Range(params)
      byPos == {params[i] : i \in 1..Min(np, Len(params))}
      idx(n) == CHOOSE i \in 1..Len(params) : params[i] = n
  IN IF \/ np > Len(params)
        \/ \E n \in DOMAIN call.kw : n \notin names
        \/ \E n \in DOMAIN call.kw : n \in byPos
        \/ \E n \in names : n \notin byPos /\ n \notin DOMAIN call.kw
     THEN [args |-> [n \in {} |-> NoVal], ok |-> FALSE]
     ELSE [args |-> [n \in names |-> IF n \in byPos THEN call.pos[idx(n)]
                                     ELSE call.kw[n]],
           ok |-> TRUE]

Ret(v) == [kind |-> "return", val |-> v, exc |-> "", msg |-> "", logged |-> ""]

Raise(e, m, l) == [kind |-> "raise", val |-> NoVal, exc |-> e, msg |-> m, logged |-> l]

TypeError == Raise("TypeError", "", "")

\* a / b
Divide(a, b) ==
  IF IsZero(b) THEN Raise("ZeroDivisionError", "division by zero", "")
  ELSE Ret(TrueDiv(a, b))

\* not isinstance(x, (float, int)) or x <= 0
NotPositiveNumber(x) == ~IsNumber(x) \/ Leq(x, Zero)

DepthError == Raise("ValueError", "Depth must be a positive number",
                    "Depth must be a positive number")

WidthError == Raise("ValueError", "Width must be a positive number",
                    "Width must be a positive number")

SideSlopeError == Raise("ValueError", "Side slope must be a positive number",
                        "Side slope must be a positive number")

DiameterError == Raise("ValueError", "Diameter must be a positive number",
                       "Diameter must be a positive number")

ExceedsError == Raise("ValueError", "Depth must be smaller or equal than diameter",
                      "Depth exceeds diameter")

\* ------------------------------------------------------------------------
\* class Rectangular
\* ------------------------------------------------------------------------
Rectangular_init(call) ==
  LET b == Bind(<<"width">>, call)
  IN IF ~b.ok THEN TypeError
     ELSE LET width == b.args["width"]
          IN IF NotPositiveNumber(width) THEN WidthError
             ELSE Ret([width |-> ToFloat(width), cls |-> "Rectangular"])

Rectangular_area(self, call) ==
  LET b == Bind(<<"depth">>, call)
  IN IF ~b.ok THEN TypeError
     ELSE LET depth == b.args["depth"]
          IN IF NotPositiveNumber(depth) THEN DepthError
             ELSE Ret(Mul(depth, self.width))

\* Rectangular.wetted_perimeter counting one wall instead of two
Rectangular_wetted_perimeter_OneWall(self, call) ==
  LET b == Bind(<<"depth">>, call)
  IN IF ~b.ok THEN TypeError
     ELSE LET depth == b.args["depth"]
          IN IF NotPositiveNumber(depth) THEN DepthError
             ELSE Ret(Add(self.width, depth))

Rectangular_wetted_perimeter(self, call) ==
  LET b == Bind(<<"depth">>, call)
  IN IF ~b.ok THEN TypeError
     ELSE LET depth == b.args["depth"]
          IN IF NotPositiveNumber(depth) THEN DepthError
             ELSE Ret(Add(self.width, Mul(PyInt(2), depth)))

\* Rectangular.top_width growing with the depth like a trapezoid's
Rectangular_top_width_Sloped(self, call) ==
  LET b == Bind(<<"depth">>, call)
  IN IF ~b.ok THEN TypeError
     ELSE LET depth == b.args["depth"]
          IN IF NotPositiveNumber(depth) THEN DepthError
             ELSE Ret(Add(self.width, Mul(PyInt(2), depth)))

Rectangular_top_width(self, call) ==
  LET b == Bind(<<"depth">>, call)
  IN IF ~b.ok THEN TypeError
     ELSE LET depth == b.args["depth"]
          IN IF NotPositiveNumber(depth) THEN DepthError
             ELSE Ret(self.width)

\* The denominator calls self.wetted_perimeter() with no argument and then
\* calls what that returns with depth; the first call already raises, and a
\* float it might have returned is not callable.
Rectangular_shape_function(self, call) ==
  LET b == Bind(<<"depth">>, call)
  IN IF ~b.ok THEN TypeError
     ELSE LET depth == b.args["depth"]
          IN IF NotPositiveNumber(depth) THEN DepthError
             ELSE LET numerator == Add(Mul(PyInt(5), self.width),
                                       Mul(PyInt(6), depth))
                      inner == Rectangular_wetted_perimeter(self, NoArgs)
                  IN IF inner.kind = "raise" THEN inner ELSE TypeError

\* ------------------------------------------------------------------------
\* class Triangular
\* ------------------------------------------------------------------------
Triangular_init(call) ==
  LET b == Bind(<<"depth", "side_slope">>, call)
  IN IF ~b.ok THEN TypeError
     ELSE LET depth == b.args["depth"]
              side_slope == b.args["side_slope"]
          IN IF NotPositiveNumber(depth) THEN DepthError
             ELSE IF NotPositiveNumber(side_slope) THEN SideSlopeError
             ELSE Ret([cls |-> "Triangular", depth |-> depth,
                       side_slope |-> side_slope])

Triangular_area(self, call) ==
  IF ~Bind(<<>>, call).ok THEN TypeError
  ELSE Ret(Mul(self.side_slope, Square(self.depth)))

Triangular_wetted_perimeter(self, call) ==
  IF ~Bind(<<>>, call).ok THEN TypeError
  ELSE Ret(Mul(Mul(PyInt(2), self.depth),
               Sqrt(Add(One, Square(self.side_slope)))))

Triangular_top_width(self, call) ==
  IF ~Bind(<<>>, call).ok THEN TypeError
  ELSE Ret(Mul(Mul(PyInt(2), self.depth), self.side_slope))

Triangular_shape_function(self, call) ==
  IF ~Bind(<<>>, call).ok THEN TypeError
  ELSE Divide(PyInt(8), Mul(PyInt(3), self.depth))

\* ------------------------------------------------------------------------
\* class Trapezoidal
\* ------------------------------------------------------------------------
\* Trapezoidal.__init__ reporting an invalid side slope with the message of
\* the depth check above it
Trapezoidal_init_DepthMessage(call) ==
  LET b == Bind(<<"width", "depth", "side_slope">>, call)
  IN IF ~b.ok THEN TypeError
     ELSE LET width == b.args["width"]
              depth == b.args["depth"]
              side_slope == b.args["side_slope"]
          IN IF NotPositiveNumber(width) THEN WidthError
             ELSE IF NotPositiveNumber(depth) THEN DepthError
             ELSE IF NotPositiveNumber(side_slope) THEN DepthError
             ELSE Ret([width |-> width, cls |-> "Trapezoidal",
                       depth |-> depth, side_slope |-> side_slope])

Trapezoidal_init(call) ==
  LET b == Bind(<<"width", "depth", "side_slope">>, call)
  IN IF ~b.ok THEN TypeError
     ELSE LET width == b.args["width"]
              depth == b.args["depth"]
              side_slope == b.args["side_slope"]
          IN IF NotPositiveNumber(width) THEN WidthError
             ELSE IF NotPositiveNumber(depth) THEN DepthError
             ELSE IF NotPositiveNumber(side_slope) THEN SideSlopeError
             ELSE Ret([width |-> width, cls |-> "Trapezoidal",
                       depth |-> depth, side_slope |-> side_slope])

Trapezoidal_area(self, call) ==
  IF ~Bind(<<>>, call).ok THEN TypeError
  ELSE Ret(Mul(Add(self.width, Mul(self.side_slope, self.depth)), self.depth))

Trapezoidal_wetted_perimeter(self, call) ==
  IF ~Bind(<<>>, call).ok THEN TypeError
  ELSE Ret(Add(self.width,
               Mul(Mul(PyInt(2), self.depth),
                   Sqrt(Add(One, Square(self.side_slope))))))

Trapezoidal_top_width(self, call) ==
  IF ~Bind(<<>>, call).ok THEN TypeError
  ELSE Ret(Add(self.width, Mul(Mul(PyInt(2), self.depth), self.side_slope)))

Trapezoidal_shape_function(self, call) ==
  IF ~Bind(<<>>, call).ok THEN TypeError
  ELSE LET A == Sqrt(Add(One, Square(self.side_slope)))
           tw == Trapezoidal_top_width(self, NoArgs)
           numerator ==
             Add(Mul(tw.val, Add(Mul(PyInt(5), self.width),
                                 Mul(Mul(PyInt(6), self.depth), A))),
                 Mul(Mul(Mul(PyInt(4), self.side_slope), Square(self.depth)), A))
           denominator ==
             Mul(Mul(Mul(PyInt(3), self.depth),
                     Add(self.width, Mul(self.depth, self.side_slope))),
                 Add(self.width, Mul(Mul(PyInt(2), self.depth), A)))
       IN IF tw.kind = "raise" THEN tw ELSE Divide(numerator, denominator)

\* ------------------------------------------------------------------------
\* class Circular
\* ------------------------------------------------------------------------
Circular_init(call) ==
  LET b == Bind(<<"diameter", "depth">>, call)
  IN IF ~b.ok THEN TypeError
     ELSE LET diameter == b.args["diameter"]
              depth == b.args["depth"]
          IN IF NotPositiveNumber(diameter) THEN DiameterError
             ELSE IF NotPositiveNumber(depth) THEN DepthError
             ELSE IF Gt(depth, diameter) THEN ExceedsError
             ELSE LET q == Divide(Mul(PyInt(2), depth), diameter)
                  IN IF q.kind = "raise" THEN q
                     ELSE Ret([cls |-> "Circular", depth |-> depth,
                               diameter |-> diameter,
                               theta |-> Mul(PyInt(2), Acos(Sub(One, q.val)))])

Circular_area(self, call) ==
  IF ~Bind(<<>>, call).ok THEN TypeError
  ELSE Ret(Mul(Mul(TrueDiv(One, PyInt(8)),
                   Sub(self.theta, Sin(self.theta))),
               Square(self.diameter)))

Circular_wetted_perimeter(self, call) ==
  IF ~Bind(<<>>, call).ok THEN TypeError
  ELSE Ret(Mul(Mul(TrueDiv(One, PyInt(2)), self.theta), self.diameter))

Circular_top_width(self, call) ==
  IF ~Bind(<<>>, call).ok THEN TypeError
  ELSE Ret(Mul(Sin(TrueDiv(self.theta, PyInt(2))), self.diameter))

Circular_shape_function(self, call) ==
  IF ~Bind(<<>>, call).ok THEN TypeError
  ELSE LET numerator ==
             Mul(PyInt(4),
                 Sub(Add(Mul(PyInt(2), Sin(self.theta)),
                         Mul(PyInt(3), self.theta)),
                     Mul(Mul(PyInt(5), self.theta), Cos(self.theta))))
           denominator ==
             Mul(Mul(Mul(Mul(PyInt(3), self.diameter), self.theta),
                     Sub(self.theta, Sin(self.theta))),
                 Sin(TrueDiv(self.theta, PyInt(2))))
       IN Divide(numerator, denominator)

\* ------------------------------------------------------------------------
\* class ChannelXSection: method lookup on the instance's class, and the
\* two queries the base class implements
\* ------------------------------------------------------------------------
area(self, call) ==
  CASE self.cls = "Rectangular" -> Rectangular_area(self, call)
    [] self.cls = "Triangular"  -> Triangular_area(self, call)
    [] self.cls = "Trapezoidal" -> Trapezoidal_area(self, call)
    [] self.cls = "Circular"    -> Circular_area(self, call)

wetted_perimeter(self, call) ==
  CASE self.cls = "Rectangular" -> Rectangular_wetted_perimeter(self, call)
    [] self.cls = "Triangular"  -> Triangular_wetted_perimeter(self, call)
    [] self.cls = "Trapezoidal" -> Trapezoidal_wetted_perimeter(self, call)
    [] self.cls = "Circular"    -> Circular_wetted_perimeter(self, call)

top_width(self, call) ==
  CASE self.cls = "Rectangular" -> Rectangular_top_width(self, call)
    [] self.cls = "Triangular"  -> Triangular_top_width(self, call)
    [] self.cls = "Trapezoidal" -> Trapezoidal_top_width(self, call)
    [] self.cls = "Circular"    -> Circular_top_width(self, call)

shape_function(self, call) ==
  CASE self.cls = "Rectangular" -> Rectangular_shape_function(self, call)
    [] self.cls = "Triangular"  -> Triangular_shape_function(self, call)
    [] self.cls = "Trapezoidal" -> Trapezoidal_shape_function(self, call)
    [] self.cls = "Circular"    -> Circular_shape_function(self, call)

\* a / b of two calls' outcomes, the first exception raised propagating
Quotient(a, b) ==
  IF a.kind = "raise" THEN a
  ELSE IF b.kind = "raise" THEN b
  ELSE Divide(a.val, b.val)

hydraulic_radius(self, call) ==
  LET b == Bind(<<"y">>, call)
  IN IF ~b.ok THEN TypeError
     ELSE IF NotPositiveNumber(b.args["y"]) THEN DepthError
     ELSE Quotient(area(self, Positional(<<b.args["y"]>>)),
                   wetted_perimeter(self, Positional(<<b.args["y"]>>)))

hydraulic_depth(self, call) ==
  LET b == Bind(<<"y">>, call)
  IN IF ~b.ok THEN TypeError
     ELSE IF NotPositiveNumber(b.args["y"]) THEN DepthError
     ELSE Quotient(area(self, Positional(<<b.args["y"]>>)),
                   top_width(self, Positional(<<b.args["y"]>>)))

\* ------------------------------------------------------------------------
\* The caller: one instance at a time, constructed, queried any number of
\* times and discarded
\* ------------------------------------------------------------------------
\* obj is the instance, made its attributes as the constructor left them,
\* result the outcome of the last call
VARIABLES obj, made, result

vars == <<obj, made, result>>

MaxDepth == 4

NoObj == [cls |-> "None"]

NoResult == [call |-> NoArgs, kind |-> "none", val |-> NoVal, exc |-> "",
             msg |-> "", logged |-> "", op |-> "none"]

\* zero, negative and non-numeric arguments
Invalid == {PyInt(0), PyFloat(-5, 2), PyStr("foo")}

\* floats that are not finite numbers
NonFiniteVals == {NaN, Inf}

WidthVals == Invalid \cup NonFiniteVals \cup {PyInt(2), PyInt(10)}

SideSlopeVals == Invalid \cup NonFiniteVals \cup {PyInt(1), PyInt(2)}

DiameterVals == Invalid \cup NonFiniteVals \cup {PyInt(1), PyInt(2), PyInt(4)}

DepthVals == Invalid \cup NonFiniteVals \cup {PyInt(i) : i \in 1..MaxDepth}

ArgVals(name) ==
  CASE name = "width"      -> WidthVals
    [] name = "side_slope" -> SideSlopeVals
    [] name = "diameter"   -> DiameterVals
    [] name = "depth"      -> DepthVals

\* every call that passes some of the named arguments by keyword, and the
\* call that passes all of them by position
Calls(params) ==
  LET all == UNION {ArgVals(n) : n \in Range(params)}
      kws == UNION {{f \in [S -> all] : \A n \in S : f[n] \in ArgVals(n)}
                      : S \in SUBSET Range(params)}
      poss == {a \in [1..Len(params) -> all]
                 : \A i \in 1..Len(params) : a[i] \in ArgVals(params[i])}
  IN {[pos |-> <<>>, kw |-> f] : f \in kws} \cup {Positional(a) : a \in poss}

Outcome(op, call, out) ==
  [call |-> call, kind |-> out.kind, val |-> out.val, exc |-> out.exc,
   msg |-> out.msg, logged |-> out.logged, op |-> op]

Init == obj = NoObj /\ made = NoObj /\ result = NoResult

Construct(cls, call, out) ==
  /\ obj = NoObj
  /\ obj' = IF out.kind = "return" THEN out.val ELSE NoObj
  /\ made' = obj'
  /\ result' = Outcome(cls, call, out)

ConstructRectangular ==
  \E call \in Calls(<<"width">>) :
    Construct("Rectangular", call, Rectangular_init(call))

ConstructTriangular ==
  \E call \in Calls(<<"depth", "side_slope">>) :
    Construct("Triangular", call, Triangular_init(call))

ConstructTrapezoidal ==
  \E call \in Calls(<<"width", "depth", "side_slope">>) :
    Construct("Trapezoidal", call, Trapezoidal_init(call))

ConstructCircular ==
  \E call \in Calls(<<"diameter", "depth">>) :
    Construct("Circular", call, Circular_init(call))

\* a query that keeps the depth it was passed in self.depth
Query_StoresDepth(op, call, out) ==
  /\ obj # NoObj
  /\ obj' = IF Len(call.pos) = 1 /\ "depth" \in DOMAIN obj
            THEN [obj EXCEPT !.depth = call.pos[1]]
            ELSE obj
  /\ made' = made
  /\ result' = Outcome(op, call, out)

\* no query assigns to an attribute of self
Query(op, call, out) ==
  /\ obj # NoObj
  /\ obj' = obj
  /\ made' = made
  /\ result' = Outcome(op, call, out)

QueryArea ==
  \E call \in Calls(<<"depth">>) : Query("area", call, area(obj, call))

QueryWettedPerimeter ==
  \E call \in Calls(<<"depth">>) :
    Query("wetted_perimeter", call, wetted_perimeter(obj, call))

QueryTopWidth ==
  \E call \in Calls(<<"depth">>) : Query("top_width", call, top_width(obj, call))

QueryShapeFunction ==
  \E call \in Calls(<<"depth">>) :
    Query("shape_function", call, shape_function(obj, call))

QueryHydraulicRadius ==
  \E call \in Calls(<<"depth">>) :
    Query("hydraulic_radius", call, hydraulic_radius(obj, call))

QueryHydraulicDepth ==
  \E call \in Calls(<<"depth">>) :
    Query("hydraulic_depth", call, hydraulic_depth(obj, call))

Discard ==
  /\ obj # NoObj
  /\ obj' = NoObj
  /\ made' = NoObj
  /\ result' = NoResult

Next ==
  \/ ConstructRectangular
  \/ ConstructTriangular
  \/ ConstructTrapezoidal
  \/ ConstructCircular
  \/ QueryArea
  \/ QueryWettedPerimeter
  \/ QueryTopWidth
  \/ QueryShapeFunction
  \/ QueryHydraulicRadius
  \/ QueryHydraulicDepth
  \/ Discard

Spec == Init /\ [][Next]_vars

\* ------------------------------------------------------------------------
\* Vocabulary of the properties
\* ------------------------------------------------------------------------
Queries == {"area", "wetted_perimeter", "top_width", "shape_function",
            "hydraulic_radius", "hydraulic_depth"}

Classes == {"Rectangular", "Triangular", "Trapezoidal", "Circular"}

\* the parameters that fix the geometry of a shape
Geometry(cls) ==
  CASE cls = "Rectangular" -> {"width"}
    [] cls = "Triangular"  -> {"side_slope"}
    [] cls = "Trapezoidal" -> {"width", "side_slope"}
    [] cls = "Circular"    -> {"diameter"}

\* a finite positive number
Positive(x) == IsNumber(x) /\ IsFinite(x) /\ Gt(x, Zero)

\* there is an instance, built from finite positive parameters
ValidInstance ==
  /\ obj # NoObj
  /\ \A f \in (DOMAIN obj) \ {"cls", "theta"} : Positive(obj[f])

\* the last operation was a query on such an instance
Queried == ValidInstance /\ result.op \in Queries

\* the last call passed exactly one argument, the depth, written f(y)
ByPosition == Len(result.call.pos) = 1 /\ DOMAIN result.call.kw = {}

\* ... or written f(depth=y)
ByKeyword == result.call.pos = <<>> /\ DOMAIN result.call.kw = {"depth"}

Depth == IF ByPosition THEN result.call.pos[1] ELSE result.call.kw["depth"]

\* zero, negative or not a number
NotPositive(x) == ~IsNumber(x) \/ (IsFinite(x) /\ Leq(x, Zero))

\* the depth is in the domain of the instance's shape
ValidDepth(y) ==
  /\ Positive(y)
  /\ obj.cls = "Circular" => Leq(y, obj.diameter)

\* the last operation was a constructor call that passed the geometric
\* parameters of the class, all of them and nothing else, by keyword
GeometryOnly ==
  /\ result.op \in Classes
  /\ result.call.pos = <<>>
  /\ DOMAIN result.call.kw = Geometry(result.op)

Returned == result.kind = "return"

Raised(e) == result.kind = "raise" /\ result.exc = e

\* the returned number is the rational p/q
IsRat(v, p, q) == IsNumber(v) /\ IsRational(v) /\ RatNum(v) * q = p * RatDen(v)

\* float('nan'), float('inf') or float('-inf')
NotFinite(x) == IsNumber(x) /\ ~IsFinite(x)

\* the parameters of a constructor or of a query of an instance of cls, as
\* its def names them
Signature(op, cls) ==
  CASE op = "Rectangular" -> <<"width">>
    [] op = "Triangular"  -> <<"depth", "side_slope">>
    [] op = "Trapezoidal" -> <<"width", "depth", "side_slope">>
    [] op = "Circular"    -> <<"diameter", "depth">>
    [] op \in {"hydraulic_radius", "hydraulic_depth"} -> <<"y">>
    [] op \in Queries \ {"hydraulic_radius", "hydraulic_depth"}
         -> IF cls = "Rectangular" THEN <<"depth">> ELSE <<>>

\* the last call passed every parameter of what it called and nothing else
Bound == Bind(Signature(result.op, obj.cls), result.call).ok

\* the value the last call passed for the parameter named name
Arg(name) == Bind(Signature(result.op, obj.cls), result.call).args[name]

\* the values the last call passed
Args == Range(result.call.pos)
          \cup {result.call.kw[n] : n \in DOMAIN result.call.kw}

\* the depth the last call passed, under the name its def gives it
DepthArg ==
  IF result.op \in {"hydraulic_radius", "hydraulic_depth"} THEN Arg("y")
  ELSE Arg("depth")

\* the last call has a parameter of that name and passed for it something
\* that is not a positive number
InvalidArg(name) ==
  /\ name \in Range(Signature(result.op, obj.cls))
  /\ ~IsNumber(Arg(name)) \/ ~Gt(Arg(name), Zero)

\* a < b, for rationals
Less(a, b) ==
  /\ IsNumber(a) /\ IsRational(a)
  /\ IsNumber(b) /\ IsRational(b)
  /\ RatNum(a) * RatDen(b) < RatNum(b) * RatDen(a)

Primitives == {"area", "wetted_perimeter", "top_width"}

\* the primitive named op called on self
Primitive(op, self, call) ==
  CASE op = "area"             -> area(self, call)
    [] op = "wetted_perimeter" -> wetted_perimeter(self, call)
    [] op = "top_width"        -> top_width(self, call)

\* the query named op called on self
Method(op, self, call) ==
  CASE op \in Primitives        -> Primitive(op, self, call)
    [] op = "shape_function"   -> shape_function(self, call)
    [] op = "hydraulic_radius" -> hydraulic_radius(self, call)
    [] op = "hydraulic_depth"  -> hydraulic_depth(self, call)

\* ------------------------------------------------------------------------
\* Properties
\* ------------------------------------------------------------------------

\* C1: for every shape and every valid depth y, hydraulic_radius(y) returns
\* area(y) / wetted_perimeter(y) and hydraulic_depth(y) returns
\* area(y) / top_width(y), the primitives being those of the same instance
\* called with the same y.
C1_DerivedFromPrimitives ==
  (Queried /\ ByPosition /\ result.op \in {"hydraulic_radius", "hydraulic_depth"}
     /\ ValidDepth(Depth))
  => LET a == area(obj, Positional(<<Depth>>))
         b == IF result.op = "hydraulic_radius"
              THEN wetted_perimeter(obj, Positional(<<Depth>>))
              ELSE top_width(obj, Positional(<<Depth>>))
     IN /\ a.kind = "return"
        /\ b.kind = "return"
        /\ Returned
        /\ NumEq(Mul(result.val, b.val), a.val)

\* C2: every query of every shape, called with a depth that is zero,
\* negative or not a number, raises ValueError.
C2_InvalidDepthRaisesValueError ==
  (Queried /\ (ByPosition \/ ByKeyword) /\ NotPositive(Depth))
  => Raised("ValueError")

\* C3: a constructor called with only its geometric parameters, one of them
\* zero, negative or not a number, raises ValueError and creates no instance.
C3_InvalidGeometryRaisesValueError ==
  (GeometryOnly /\ \E n \in Geometry(result.op) : NotPositive(result.call.kw[n]))
  => Raised("ValueError") /\ obj = NoObj

\* C4: a shape is constructed from its positive geometric parameters alone,
\* and the instance answers every query at the valid depth passed in the call.
C4_DepthPerCall ==
  /\ (GeometryOnly /\ \A n \in Geometry(result.op) : Positive(result.call.kw[n]))
     => Returned /\ obj # NoObj /\ obj.cls = result.op
  /\ (Queried /\ (ByPosition \/ ByKeyword) /\ ValidDepth(Depth)) => Returned

\* C5: on a Circular instance of diameter d every query with a depth y > d
\* raises ValueError, and no query with 0 < y <= d fails validation.
C5_CircularDepthRange ==
  (Queried /\ obj.cls = "Circular" /\ (ByPosition \/ ByKeyword)
     /\ Positive(Depth))
  => IF Gt(Depth, obj.diameter) THEN Raised("ValueError")
     ELSE ~Raised("ValueError")

\* C6: a query ends by returning a number or by raising ValueError, never
\* with another kind of error.
C6_NumberOrValueError ==
  Queried => \/ Returned /\ IsNumber(result.val)
             \/ Raised("ValueError")

\* C7: Rectangular.shape_function(y) returns (5w + 6y) / (3y(w + 2y)) for
\* every valid depth y; for width 10 and depth 2 that is 31/42.
C7_RectangularShapeFunction ==
  (Queried /\ obj.cls = "Rectangular" /\ result.op = "shape_function"
     /\ ByPosition /\ ValidDepth(Depth))
  => LET wn == RatNum(obj.width)
         wd == RatDen(obj.width)
         yn == RatNum(Depth)
         yd == RatDen(Depth)
     IN /\ Returned
        /\ IsRat(result.val, (5 * wn * yd + 6 * yn * wd) * yd,
                             3 * yn * (wn * yd + 2 * yn * wd))
        /\ (wn = 10 * wd /\ yn = 2 * yd) => IsRat(result.val, 31, 42)

C9_TriangularFormulas ==
  (Queried /\ obj.cls = "Triangular" /\ (ByPosition \/ ByKeyword)
     /\ result.op \in {"area", "top_width", "shape_function"}
     /\ ValidDepth(Depth))
  => LET mn == RatNum(obj.side_slope)
         md == RatDen(obj.side_slope)
         yn == RatNum(Depth)
         yd == RatDen(Depth)
     IN /\ Returned
        /\ result.op = "area" => IsRat(result.val, mn * yn * yn, md * yd * yd)
        /\ result.op = "top_width" => IsRat(result.val, 2 * yn * mn, yd * md)
        /\ result.op = "shape_function" => IsRat(result.val, 8 * yd, 3 * yn)

\* C10: on a Trapezoidal instance of width w and side slope m, for every
\* valid depth y passed to the query and A = sqrt(1 + m^2):
\* area(y) = (w + m*y)*y, wetted_perimeter(y) = w + 2y*A,
\* top_width(y) = w + 2y*m and shape_function(y) =
\* [top_width(y)*(5w + 6y*A) + 4m*y^2*A] / [3y*(w + y*m)*(w + 2y*A)].
C10_TrapezoidalFormulas ==
  (Queried /\ obj.cls = "Trapezoidal" /\ (ByPosition \/ ByKeyword)
     /\ result.op \in {"area", "wetted_perimeter", "top_width", "shape_function"}
     /\ ValidDepth(Depth))
  => LET w == obj.width
         m == obj.side_slope
         y == Depth
         A == Sqrt(Add(One, Square(m)))
         two == PyInt(2)
         tw == Add(w, Mul(Mul(two, y), m))
         wp == Add(w, Mul(Mul(two, y), A))
     IN /\ Returned
        /\ result.op = "area" => NumEq(result.val, Mul(Add(w, Mul(m, y)), y))
        /\ result.op = "wetted_perimeter" => NumEq(result.val, wp)
        /\ result.op = "top_width" => NumEq(result.val, tw)
        /\ result.op = "shape_function"
             => NumEq(Mul(result.val,
                          Mul(Mul(Mul(PyInt(3), y), Add(w, Mul(y, m))), wp)),
                      Add(Mul(tw, Add(Mul(PyInt(5), w), Mul(Mul(PyInt(6), y), A))),
                          Mul(Mul(Mul(PyInt(4), m), Square(y)), A)))

C12_NonFiniteRejected ==
  /\ (Queried /\ (ByPosition \/ ByKeyword) /\ NotFinite(Depth))
     => Raised("ValueError")
  /\ (result.op \in Classes /\ Bound /\ \E x \in Args : NotFinite(x))
     => Raised("ValueError") /\ obj = NoObj
  /\ (Queried /\ Returned) => ~NotFinite(result.val)

C14_ThetaPerQuery ==
  (Queried /\ obj.cls = "Circular" /\ (ByPosition \/ ByKeyword)
     /\ result.op \in Primitives /\ ValidDepth(Depth))
  => LET d == obj.diameter
         theta == Mul(PyInt(2),
                      Acos(Sub(One, TrueDiv(Mul(PyInt(2), Depth), d))))
     IN /\ "theta" \notin DOMAIN obj
        /\ Returned
        /\ result.op = "area"
             => NumEq(result.val,
                      Mul(Mul(TrueDiv(One, PyInt(8)), Sub(theta, Sin(theta))),
                          Square(d)))
        /\ result.op = "wetted_perimeter"
             => NumEq(result.val, Mul(Mul(TrueDiv(One, PyInt(2)), theta), d))
        /\ result.op = "top_width"
             => NumEq(result.val, Mul(Sin(TrueDiv(theta, PyInt(2))), d))

\* C15: no query, whether it returns or raises, changes an attribute of the
\* instance: after any sequence of queries the instance's attributes are
\* those the constructor left, and the outcome of a query is the outcome of
\* that same call on the instance as constructed, whatever was called in
\* between.
C15_QueriesChangeNothing ==
  /\ obj # NoObj => obj = made
  /\ (obj # NoObj /\ result.op \in Queries)
     => result = Outcome(result.op, result.call,
                         Method(result.op, made, result.call))

\* C15 witness: Circular(4, 1).area() has returned.
C15_Witness ==
  /\ obj # NoObj /\ obj.cls = "Circular" /\ IsRat(obj.diameter, 4, 1)
  /\ IsRat(obj.depth, 1, 1)
  /\ result.op = "area" /\ result.call = NoArgs /\ Returned
====
